---- MODULE Spec2Model ----
(***************************************************************************)
(* A model of the native capability host of wascc-host:                    *)
(*   src/src/native_host.rs     NativeHost, the provider worker thread     *)
(*   src/src/middleware/mod.rs  invoke_capability, invoke_actor, chains    *)
(*   src/src/dispatch.rs        WasccNativeDispatcher::dispatch            *)
(* The router, the plugin manager and the invocation types are not part of *)
(* the sources at hand; their operations are modelled from the design      *)
(* document (spec.md, sections 3 and 4) and are marked so in the map.      *)
(***************************************************************************)
EXTENDS Integers, Sequences, FiniteSets, TLC

\* ------------------------------------------------------------ bounds
\* add_native_capability calls made by users of the host (one provider each)
MaxCalls == 2
\* invocations created in one run (host-side invokes and dispatches together)
MaxInv == 2
\* terminate signals sent in one run
MaxTerm == 2
\* middlewares added in one run
MaxMw == 2
\* host-side threads calling invoke
MaxClients == 1
\* dispatches a provider issues from inside handle_call in one run
MaxSub == 1

\* ------------------------------------------------------------ values
None == -1
\* provider 0 is the built-in extras provider registered by NativeHost::new
Extras == 0
Calls == 1..MaxCalls
Provs == 0..MaxCalls
Clients == 1..MaxClients
\* route keys (binding, capability id)
ExtrasKey == <<"default", "wascc:extras">>
EchoKey == <<"default", "tea:echo">>
Keys == {ExtrasKey, EchoKey}
\* payloads: sequences of bytes / tags; the empty payload is one of them
Payloads == {<<>>, <<7>>}
MwIds == 1..MaxMw
NoError == "none"
ActorTargetError == "invocation target of native host can't be actor"
NoPluginError == "no such capability provider"
BadDispatchError == "bad dispatch"
HandleCallError == "handle_call failed"
MiddlewareError == "middleware failure"
HookOutcomes == {"ok", "xform", "err"}

VARIABLES
    router,       \* Router: key -> provider owning the route's channels, or None
    plugins,      \* PluginManager: key -> provider record, or None
    caps,         \* caps: key -> provider whose descriptor is stored, or None
    configured,   \* providers that accepted configure(dispatcher)
    poisoned,     \* the plugins RwLock is poisoned (a panic under its write guard)
    middlewares,  \* the middleware chain, in registration order
    mwWriter,     \* a thread waiting in middlewares.write(): "none", or how the lock
                  \* treats read requests meanwhile: "yielding" admits them,
                  \* "preferred" makes them wait behind the writer
    cpc,          \* add_native_capability call: position / outcome
    pkey,         \* provider -> its route key
    wpc,          \* worker thread of a provider: position
    inq,          \* provider -> inbound invocation channel
    respq,        \* provider -> response channel
    term,         \* provider -> terminate signals pending on its channel
    cur,          \* worker locals while serving one invocation
    clpc, clroute, clinv, clres,   \* host-side invoke: position, handles, invocation, result
    dpc, dinv, dres, dgot,         \* Dispatcher::dispatch on a provider thread
    apc, acur,    \* invoke_actor on a host thread: position, locals
    nextId,       \* invocation id generator
    termSent,     \* terminate signals sent so far
    arrived,      \* history: provider -> ids in order of arrival on its inbound channel
    log,          \* history: provider -> what the worker answered, in order
    alog,         \* history: what invoke_actor returned, in order
    cnt           \* history: middleware -> hook -> times run

vars == <<router, plugins, caps, configured, poisoned, middlewares, mwWriter, cpc, pkey, wpc,
          inq, respq, term, cur, clpc, clroute, clinv, clres, dpc, dinv, dres, dgot,
          apc, acur, nextId, termSent, arrived, log, alog, cnt>>

regVars == <<cpc, pkey>>
clVars == <<clpc, clroute, clinv, clres>>
dVars == <<dpc, dinv, dres, dgot>>
aVars == <<apc, acur>>
histVars == <<arrived, log, alog, cnt>>

\* ------------------------------------------------------------ invocation types
CapTarget(k) == <<"cap", k>>
ActorTarget == <<"actor", <<"actor", "a1">>>>
IsActorTarget(t) == t[1] = "actor"

\* Invocation::new
NewInvocation(id, origin, target, msg) ==
    [id |-> id, origin |-> origin, target |-> target, msg |-> msg]

NoInv == NewInvocation(0, "none", ActorTarget, <<>>)

\* InvocationResponse::success(inv, msg)
ResponseSuccess(inv, msg) == [invocation_id |-> inv.id, msg |-> msg, error |-> NoError]

\* InvocationResponse::error(inv, e)
ResponseError(inv, e) == [invocation_id |-> inv.id, msg |-> <<>>, error |-> e]

NoResp == [invocation_id |-> 0, msg |-> <<>>, error |-> NoError]

\* what a round trip has returned: nothing yet
NoResult == [kind |-> "none", msg |-> <<>>, err |-> NoError]

\* ------------------------------------------------------------ router, plugin manager
route_exists(k) == router[k] # None

get_route(k) == router[k]

add_route(r, k, p) == IF r[k] # None THEN r ELSE [r EXCEPT ![k] = p]

remove_route(r, k) == [r EXCEPT ![k] = None]

\* add_plugin fails when the key is already present
add_plugin_ok(k) == plugins[k] = None

remove_plugin(pl, k) == [pl EXCEPT ![k] = None]

\* remove_cap
remove_cap(c, k) == [c EXCEPT ![k] = None]

\* ------------------------------------------------------------ threads and locks
StartingPcs == {"spawned", "configured", "routed"}
ServingPcs == {"pre", "plug", "call", "dispatching", "post", "respond"}
TerminatingPcs == {"t_caps", "t_route", "t_plug"}
GonePcs == {"exited", "panicked"}

\* the worker thread has ended: its inv_r, resp_s and term_r are dropped
WorkerGone(p) == wpc[p] \in GonePcs

\* the WaitGroup clone moved into the worker closure has been dropped
WgDropped(p) == wpc[p] \notin ({"none"} \cup StartingPcs)

\* a worker inside invoke_capability holds the middlewares read guard `mw`
MiddlewaresReadHeld ==
    \/ \E p \in Provs : wpc[p] \in {"plug", "call", "dispatching", "post"}
    \/ apc \in {"guest", "post"}

\* middlewares.read() returns: a write is one step here, so no writer holds
\* the lock, and no waiting writer is served before new readers
MiddlewaresReadAdmits == mwWriter # "preferred"

\* a worker inside invoke_capability holds the plugins read guard `lock`
PluginsReadHeld == \E p \in Provs : wpc[p] \in {"call", "dispatching", "post"}

\* the locks a worker thread holds at its position: the guard mw from
\* mod.rs 38 and the guard lock from mod.rs 47 both live to the end of
\* invoke_capability; in the loop and in the terminate arm every guard is a
\* temporary of one statement
WorkerHolds(p) ==
    (IF wpc[p] \in {"plug", "call", "dispatching", "post"} THEN {"middlewares"} ELSE {})
    \cup (IF wpc[p] \in {"call", "dispatching", "post"} THEN {"plugins"} ELSE {})

\* the lock the worker's next statement acquires at its position, "none" if
\* it acquires none: register_dispatcher (native_host.rs 81-83), add_route
\* (87-89), mw (mod.rs 38), lock (47), the second middlewares.read() (54),
\* remove_route (native_host.rs 115), remove_plugin (116)
WorkerAcquires(p) ==
    CASE wpc[p] \in {"spawned", "plug", "t_plug"} -> "plugins"
      [] wpc[p] \in {"configured", "t_route"} -> "router"
      [] wpc[p] \in {"pre", "post"} -> "middlewares"
      [] OTHER -> "none"

\* the documented order: middlewares, then plugins, then router
LockRank(l) ==
    CASE l = "middlewares" -> 1 [] l = "plugins" -> 2 [] l = "router" -> 3
      [] OTHER -> 4

\* the worker is inside lock.call(router, &inv): the provider's handle_call runs
InHandleCall(p) == wpc[p] \in {"call", "dispatching"}

\* the worker waits in a channel operation: the select! of the loop, or the
\* recv of a dispatch made from handle_call
InChannelWait(p) == wpc[p] \in {"loop", "dispatching"}

\* ------------------------------------------------------------ add_native_capability
\* lines 36-47: the route_exists check under the router read lock
add_native_capability(c, k) ==
    /\ cpc[c] = "idle"
    /\ pkey' = [pkey EXCEPT ![c] = k]
    /\ cpc' = [cpc EXCEPT ![c] = IF route_exists(k) THEN "Err" ELSE "checked"]
    /\ UNCHANGED <<mwWriter, router, plugins, caps, configured, poisoned, middlewares, wpc, inq,
                   respq, term, cur, clVars, dVars, aVars, nextId, termSent, histVars>>

\* lines 48-54: caps.insert(key, descriptor), replacing what the key held
caps_insert(c) ==
    /\ cpc[c] = "checked"
    /\ caps' = [caps EXCEPT ![pkey[c]] = c]
    /\ cpc' = [cpc EXCEPT ![c] = "inserted"]
    /\ UNCHANGED <<mwWriter, router, plugins, configured, poisoned, middlewares, pkey, wpc, inq,
                   respq, term, cur, clVars, dVars, aVars, nextId, termSent, histVars>>

\* lines 55-56, 61-75, 123: add_plugin under the plugins write lock, then thread::spawn
spawn_capability_provider_and_listen(c) ==
    /\ cpc[c] = "inserted"
    /\ ~PluginsReadHeld
    /\ IF poisoned
       THEN \* plugins.write().unwrap() panics in the calling thread
            /\ cpc' = [cpc EXCEPT ![c] = "Panic"]
            /\ UNCHANGED <<plugins, wpc>>
       ELSE IF ~add_plugin_ok(pkey[c])
       THEN /\ cpc' = [cpc EXCEPT ![c] = "Err"]
            /\ UNCHANGED <<plugins, wpc>>
       ELSE /\ plugins' = [plugins EXCEPT ![pkey[c]] = c]
            /\ wpc' = [wpc EXCEPT ![c] = "spawned"]
            /\ cpc' = [cpc EXCEPT ![c] = "waiting"]
    /\ UNCHANGED <<mwWriter, router, caps, configured, poisoned, middlewares, pkey, inq,
                   respq, term, cur, clVars, dVars, aVars, nextId, termSent, histVars>>

\* lines 57-58: wg.wait() returns once every clone of the wait group is dropped
wg_wait(c) ==
    /\ cpc[c] = "waiting"
    /\ WgDropped(c)
    /\ cpc' = [cpc EXCEPT ![c] = "Ok"]
    /\ UNCHANGED <<mwWriter, router, plugins, caps, configured, poisoned, middlewares, pkey, wpc,
                   inq, respq, term, cur, clVars, dVars, aVars, nextId, termSent, histVars>>

\* ------------------------------------------------------------ worker thread: start
\* what a provider's configure(dispatcher) may answer: the built-in extras
\* provider takes its dispatcher, a loaded provider may reject it
Accepts(p) == IF p = Extras THEN {TRUE} ELSE BOOLEAN

\* lines 76-85: channels, dispatcher, register_dispatcher(..).unwrap()
\* under the plugins write guard; a rejected configure panics the thread,
\* which poisons the lock and drops the closure's captures (wg included)
worker_register_dispatcher(p) ==
    /\ wpc[p] = "spawned"
    /\ ~PluginsReadHeld
    /\ \E accept \in Accepts(p) :
         IF poisoned
         THEN /\ wpc' = [wpc EXCEPT ![p] = "panicked"]
              /\ UNCHANGED <<configured, poisoned>>
         ELSE IF accept /\ plugins[pkey[p]] = p
         THEN /\ configured' = configured \cup {p}
              /\ wpc' = [wpc EXCEPT ![p] = "configured"]
              /\ UNCHANGED poisoned
         ELSE /\ poisoned' = TRUE
              /\ wpc' = [wpc EXCEPT ![p] = "panicked"]
              /\ UNCHANGED configured
    /\ UNCHANGED <<mwWriter, router, plugins, caps, middlewares, regVars, inq,
                   respq, term, cur, clVars, dVars, aVars, nextId, termSent, histVars>>

\* lines 87-90: router.write().unwrap().add_route(..)
worker_add_route(p) ==
    /\ wpc[p] = "configured"
    /\ router' = add_route(router, pkey[p], p)
    /\ wpc' = [wpc EXCEPT ![p] = "routed"]
    /\ UNCHANGED <<mwWriter, plugins, caps, configured, poisoned, middlewares, regVars, inq,
                   respq, term, cur, clVars, dVars, aVars, nextId, termSent, histVars>>

\* lines 92-95: drop(wg), then the select loop
worker_ready(p) ==
    /\ wpc[p] = "routed"
    /\ wpc' = [wpc EXCEPT ![p] = "loop"]
    /\ UNCHANGED <<mwWriter, router, plugins, caps, configured, poisoned, middlewares, regVars, inq,
                   respq, term, cur, clVars, dVars, aVars, nextId, termSent, histVars>>

\* ------------------------------------------------------------ worker thread: terminate
\* Router::terminate_route: sends on the route's terminate_tx
terminate_route(k) ==
    /\ termSent < MaxTerm
    /\ route_exists(k)
    /\ termSent' = termSent + 1
    /\ term' = IF WorkerGone(get_route(k)) THEN term
               ELSE [term EXCEPT ![get_route(k)] = @ + 1]
    /\ UNCHANGED <<mwWriter, router, plugins, caps, configured, poisoned, middlewares, regVars, wpc,
                   inq, respq, cur, clVars, dVars, aVars, nextId, histVars>>

\* lines 112-113: the terminate arm of select!
worker_recv_term(p) ==
    /\ wpc[p] = "loop"
    /\ term[p] > 0
    /\ term' = [term EXCEPT ![p] = @ - 1]
    /\ wpc' = [wpc EXCEPT ![p] = "t_caps"]
    /\ UNCHANGED <<mwWriter, router, plugins, caps, configured, poisoned, middlewares, regVars,
                   inq, respq, cur, clVars, dVars, aVars, nextId, termSent, histVars>>

\* line 114: remove_cap(caps, &capid, &binding)
worker_remove_cap(p) ==
    /\ wpc[p] = "t_caps"
    /\ caps' = remove_cap(caps, pkey[p])
    /\ wpc' = [wpc EXCEPT ![p] = "t_route"]
    /\ UNCHANGED <<mwWriter, router, plugins, configured, poisoned, middlewares, regVars, inq,
                   respq, term, cur, clVars, dVars, aVars, nextId, termSent, histVars>>

\* a terminate arm that leaves the route in the table
worker_remove_route_skipped(p) ==
    /\ wpc[p] = "t_route"
    /\ wpc' = [wpc EXCEPT ![p] = "t_plug"]
    /\ UNCHANGED <<mwWriter, router, plugins, caps, configured, poisoned, middlewares, regVars, inq,
                   respq, term, cur, clVars, dVars, aVars, nextId, termSent, histVars>>

\* line 115: router.write().unwrap().remove_route(..)
worker_remove_route(p) ==
    /\ wpc[p] = "t_route"
    /\ router' = remove_route(router, pkey[p])
    /\ wpc' = [wpc EXCEPT ![p] = "t_plug"]
    /\ UNCHANGED <<mwWriter, plugins, caps, configured, poisoned, middlewares, regVars, inq,
                   respq, term, cur, clVars, dVars, aVars, nextId, termSent, histVars>>

\* lines 116-117: plugins.write().unwrap().remove_plugin(..).unwrap(); break
worker_remove_plugin(p) ==
    /\ wpc[p] = "t_plug"
    /\ ~PluginsReadHeld
    /\ IF poisoned
       THEN /\ wpc' = [wpc EXCEPT ![p] = "panicked"]
            /\ UNCHANGED plugins
       ELSE /\ plugins' = remove_plugin(plugins, pkey[p])
            /\ wpc' = [wpc EXCEPT ![p] = "exited"]
    /\ UNCHANGED <<mwWriter, router, caps, configured, poisoned, middlewares, regVars, inq,
                   respq, term, cur, clVars, dVars, aVars, nextId, termSent, histVars>>

\* ------------------------------------------------------------ middleware chain
Phases == {"cap_pre", "cap_post", "actor_pre", "actor_post"}
PhaseCode(phase) ==
    CASE phase = "cap_pre" -> 1 [] phase = "cap_post" -> 2
      [] phase = "actor_pre" -> 3 [] phase = "actor_post" -> 4
\* the byte a transforming hook of middleware m appends to the payload
Tag(m, phase) == 10 * m + PhaseCode(phase)

\* one hook of trait Middleware applied to an invocation or a response:
\* Ok(unchanged), Ok(transformed) or Err
Hook(m, phase, outcome, v) ==
    [ok |-> outcome # "err",
     val |-> IF outcome = "xform" THEN [v EXCEPT !.msg = Append(@, Tag(m, phase))] ELSE v]

\* the loop shared by the four run_*_invoke functions:
\*   for m in middlewares { match m.hook(cur) { Ok(i) => cur = i, Err(e) => return Err(e) } }
\* ran lists the hooks that ran, val is cur where the loop ended
RECURSIVE run_hooks(_, _, _, _, _)
run_hooks(phase, v, mws, outs, i) ==
    IF i > Len(mws)
    THEN [ok |-> TRUE, val |-> v, ran |-> <<>>, err |-> NoError]
    ELSE LET h == Hook(mws[i], phase, outs[i], v)
         IN IF ~h.ok
            THEN [ok |-> FALSE, val |-> v, ran |-> << <<mws[i], phase>> >>,
                  err |-> MiddlewareError]
            ELSE LET rest == run_hooks(phase, h.val, mws, outs, i + 1)
                 IN [rest EXCEPT !.ran = << <<mws[i], phase>> >> \o @]

run_actor_pre_invoke(inv, mws, outs) == run_hooks("actor_pre", inv, mws, outs, 1)

run_actor_post_invoke(resp, mws, outs) == run_hooks("actor_post", resp, mws, outs, 1)

run_capability_pre_invoke(inv, mws, outs) == run_hooks("cap_pre", inv, mws, outs, 1)

\* the post chain run from the last middleware to the first
Reverse(q) == [i \in 1..Len(q) |-> q[Len(q) + 1 - i]]
run_capability_post_invoke_reversed(resp, mws, outs) ==
    run_hooks("cap_post", resp, Reverse(mws), outs, 1)

run_capability_post_invoke(resp, mws, outs) == run_hooks("cap_post", resp, mws, outs, 1)

\* a failed pre chain handing on the invocation as far as it was transformed
pre_result_partial(inv, res) == res.val

\* mod.rs 39-45 / 69-75: Ok(i) => i, Err(e) => { error!(..); inv }
pre_result(inv, res) == IF res.ok THEN res.val ELSE inv

\* a failed post chain returning the response as far as it was transformed
post_result_partial(r, res) == res.val

\* mod.rs 54-60 / 85-91: Ok(r) => Ok(r), Err(e) => { error!(..); Ok(r) }
post_result(r, res) == IF res.ok THEN res.val ELSE r

HookOuts == [1..Len(middlewares) -> HookOutcomes]
\* every hook of the pass returns its argument as it got it
Unchanging(outs) == \A i \in DOMAIN outs : outs[i] = "ok"

CountOf(ran, m) == Cardinality({i \in DOMAIN ran : ran[i][1] = m})
Bump(c, phase, ran) == [m \in MwIds |-> [c[m] EXCEPT ![phase] = @ + CountOf(ran, m)]]

NoCur == [inv |-> NoInv, pinv |-> NoInv, r |-> NoResp, resp |-> NoResp,
          trace |-> <<>>, preok |-> TRUE, postok |-> TRUE, chain |-> <<>>,
          plain |-> TRUE, sub |-> NoInv, subres |-> NoResult]

\* add_middleware(mw): appends to the chain under the middlewares write lock
add_middleware ==
    /\ Len(middlewares) < MaxMw
    /\ mwWriter = "none"
    /\ ~MiddlewaresReadHeld
    /\ middlewares' = Append(middlewares, Len(middlewares) + 1)
    /\ UNCHANGED <<mwWriter, router, plugins, caps, configured, poisoned, regVars, wpc, inq, respq,
                   term, cur, clVars, dVars, aVars, nextId, termSent, histVars>>

\* what std::sync::RwLock may do with read requests while a writer waits: the
\* priority policy is left to the operating system's lock
WriterPolicies == {"yielding", "preferred"}

\* add_middleware(mw) arriving while a read guard is out: the thread waits in
\* middlewares.write()
add_middleware_wait ==
    /\ Len(middlewares) < MaxMw
    /\ mwWriter = "none"
    /\ MiddlewaresReadHeld
    /\ \E policy \in WriterPolicies : mwWriter' = policy
    /\ UNCHANGED <<router, plugins, caps, configured, poisoned, middlewares, regVars, wpc,
                   inq, respq, term, cur, clVars, dVars, aVars, nextId, termSent, histVars>>

\* the waiting writer gets the lock once every read guard is dropped, and
\* appends to the chain
add_middleware_acquire ==
    /\ mwWriter # "none"
    /\ ~MiddlewaresReadHeld
    /\ middlewares' = Append(middlewares, Len(middlewares) + 1)
    /\ mwWriter' = "none"
    /\ UNCHANGED <<router, plugins, caps, configured, poisoned, regVars, wpc, inq, respq,
                   term, cur, clVars, dVars, aVars, nextId, termSent, histVars>>

\* ------------------------------------------------------------ worker thread: serving
\* a worker that takes the newest invocation first
recv_newest(q) == [msg |-> q[Len(q)], rest |-> SubSeq(q, 1, Len(q) - 1)]

\* native_host.rs 96-98: one recv on the inbound channel per loop iteration
recv(q) == [msg |-> Head(q), rest |-> Tail(q)]

\* a worker that sends every invocation through invoke_capability
actor_branch_never(inv) == FALSE

\* native_host.rs 99-107: the match on inv.target
actor_branch(inv) == IsActorTarget(inv.target)

worker_recv_inv(p) ==
    /\ wpc[p] = "loop"
    /\ inq[p] # <<>>
    /\ LET got == recv(inq[p])
           inv == got.msg
       IN /\ inq' = [inq EXCEPT ![p] = got.rest]
          /\ IF actor_branch(inv)
             THEN /\ cur' = [cur EXCEPT ![p] = [NoCur EXCEPT !.inv = inv,
                                 !.resp = ResponseError(inv, ActorTargetError),
                                 !.chain = middlewares]]
                  /\ wpc' = [wpc EXCEPT ![p] = "respond"]
             ELSE /\ cur' = [cur EXCEPT ![p] = [NoCur EXCEPT !.inv = inv]]
                  /\ wpc' = [wpc EXCEPT ![p] = "pre"]
    /\ UNCHANGED <<mwWriter, router, plugins, caps, configured, poisoned, middlewares, regVars,
                   respq, term, clVars, dVars, aVars, nextId, termSent, histVars>>

\* mod.rs 38-45: the read guard mw, then the pre chain
worker_pre(p) ==
    /\ wpc[p] = "pre"
    /\ MiddlewaresReadAdmits
    /\ \E outs \in HookOuts :
         LET res == run_capability_pre_invoke(cur[p].inv, middlewares, outs)
         IN /\ cur' = [cur EXCEPT ![p].pinv = pre_result(cur[p].inv, res),
                                  ![p].trace = res.ran,
                                  ![p].preok = res.ok,
                                  ![p].chain = middlewares,
                                  ![p].plain = Unchanging(outs)]
            /\ cnt' = Bump(cnt, "cap_pre", res.ran)
    /\ wpc' = [wpc EXCEPT ![p] = "plug"]
    /\ UNCHANGED <<mwWriter, router, plugins, caps, configured, poisoned, middlewares, regVars,
                   inq, respq, term, clVars, dVars, aVars, nextId, termSent,
                   arrived, log, alog>>

\* mod.rs 47: let lock = plugins.read().unwrap()
worker_plugins_read(p) ==
    /\ wpc[p] = "plug"
    /\ wpc' = [wpc EXCEPT ![p] = IF poisoned THEN "panicked" ELSE "call"]
    /\ UNCHANGED <<mwWriter, router, plugins, caps, configured, poisoned, middlewares, regVars,
                   inq, respq, term, cur, clVars, dVars, aVars, nextId, termSent, histVars>>

\* PluginManager::call: resolve the target's plugin, run its handle_call
plugin_call(inv, out) ==
    IF IsActorTarget(inv.target)
    THEN [ok |-> FALSE, resp |-> NoResp, err |-> BadDispatchError, called |-> FALSE]
    ELSE IF plugins[inv.target[2]] = None
    THEN [ok |-> FALSE, resp |-> NoResp, err |-> NoPluginError, called |-> FALSE]
    ELSE IF out = "fail"
    THEN [ok |-> FALSE, resp |-> NoResp, err |-> HandleCallError, called |-> TRUE]
    ELSE [ok |-> TRUE, resp |-> ResponseSuccess(inv, inv.msg), err |-> NoError,
          called |-> TRUE]

\* a provider call whose payload is lost on the way back
call_result_empty(inv, c) ==
    IF c.ok THEN [c.resp EXCEPT !.msg = <<>>] ELSE ResponseError(inv, c.err)

\* mod.rs 49-52: Ok(r) => r, Err(e) => InvocationResponse::error(&inv, e)
call_result(inv, c) == IF c.ok THEN c.resp ELSE ResponseError(inv, c.err)

worker_call(p) ==
    /\ wpc[p] = "call"
    /\ \E out \in {"echo", "fail"} :
         LET c == plugin_call(cur[p].pinv, out)
         IN cur' = [cur EXCEPT ![p].r = call_result(cur[p].pinv, c),
                               ![p].trace = IF c.called
                                            THEN Append(@, <<0, "handle_call">>)
                                            ELSE @,
                               ![p].plain = @ /\ out = "echo"]
    /\ wpc' = [wpc EXCEPT ![p] = "post"]
    /\ UNCHANGED <<mwWriter, router, plugins, caps, configured, poisoned, middlewares, regVars,
                   inq, respq, term, clVars, dVars, aVars, nextId, termSent, histVars>>

\* mod.rs 54-60: the second read guard, the post chain, the return
worker_post(p) ==
    /\ wpc[p] = "post"
    /\ MiddlewaresReadAdmits
    /\ \E outs \in HookOuts :
         LET res == run_capability_post_invoke(cur[p].r, middlewares, outs)
         IN /\ cur' = [cur EXCEPT ![p].resp = post_result(cur[p].r, res),
                                  ![p].trace = @ \o res.ran,
                                  ![p].postok = res.ok,
                                  ![p].plain = @ /\ Unchanging(outs)]
            /\ cnt' = Bump(cnt, "cap_post", res.ran)
    /\ wpc' = [wpc EXCEPT ![p] = "respond"]
    /\ UNCHANGED <<mwWriter, router, plugins, caps, configured, poisoned, middlewares, regVars,
                   inq, respq, term, clVars, dVars, aVars, nextId, termSent,
                   arrived, log, alog>>

\* native_host.rs 109: resp_s.send(inv_r).unwrap()
worker_respond(p) ==
    /\ wpc[p] = "respond"
    /\ respq' = [respq EXCEPT ![p] = Append(@, cur[p].resp)]
    /\ log' = [log EXCEPT ![p] = Append(@, cur[p])]
    /\ cur' = [cur EXCEPT ![p] = NoCur]
    /\ wpc' = [wpc EXCEPT ![p] = "loop"]
    /\ UNCHANGED <<mwWriter, router, plugins, caps, configured, poisoned, middlewares, regVars,
                   inq, term, clVars, dVars, aVars, nextId, termSent, arrived, alog, cnt>>

\* ------------------------------------------------------------ host-side invoke
\* the inbound receiver of p is dropped / the response sender of p is dropped
ReceiverDropped(p) == WorkerGone(p)
SenderDropped(p) == WorkerGone(p)

\* invoke(inv): the route lookup, which clones the channel handles
invoke_lookup(cl, k, actor, msg) ==
    /\ clpc[cl] = "idle"
    /\ nextId <= MaxInv
    /\ nextId' = nextId + 1
    /\ clinv' = [clinv EXCEPT ![cl] = NewInvocation(nextId, "host",
                     IF actor THEN ActorTarget ELSE CapTarget(k), msg)]
    /\ IF route_exists(k)
       THEN /\ clroute' = [clroute EXCEPT ![cl] = get_route(k)]
            /\ clpc' = [clpc EXCEPT ![cl] = "have"]
            /\ clres' = [clres EXCEPT ![cl] = NoResult]
       ELSE /\ clres' = [clres EXCEPT ![cl] = [NoResult EXCEPT !.kind = "UnknownRoute"]]
            /\ UNCHANGED <<clroute, clpc>>
    /\ UNCHANGED <<mwWriter, router, plugins, caps, configured, poisoned, middlewares, regVars, wpc,
                   inq, respq, term, cur, dVars, aVars, termSent, histVars>>

\* invoke(inv): the send on the route's inbound_tx
invoke_send(cl) ==
    /\ clpc[cl] = "have"
    /\ LET p == clroute[cl]
       IN IF ReceiverDropped(p)
          THEN /\ clres' = [clres EXCEPT ![cl] = [NoResult EXCEPT !.kind = "SendError"]]
               /\ clpc' = [clpc EXCEPT ![cl] = "idle"]
               /\ UNCHANGED <<inq, arrived>>
          ELSE /\ inq' = [inq EXCEPT ![p] = Append(@, clinv[cl])]
               /\ arrived' = [arrived EXCEPT ![p] = Append(@, clinv[cl])]
               /\ clpc' = [clpc EXCEPT ![cl] = "sent"]
               /\ UNCHANGED clres
    /\ UNCHANGED <<mwWriter, router, plugins, caps, configured, poisoned, middlewares, regVars, wpc,
                   respq, term, cur, clroute, clinv, dVars, aVars, nextId, termSent,
                   log, alog, cnt>>

\* invoke(inv): the recv on the route's response_rx
invoke_recv(cl) ==
    /\ clpc[cl] = "sent"
    /\ LET p == clroute[cl]
       IN \/ /\ respq[p] # <<>>
             /\ clres' = [clres EXCEPT ![cl] =
                    [kind |-> "Response", msg |-> Head(respq[p]).msg,
                     err |-> Head(respq[p]).error,
                     id |-> Head(respq[p]).invocation_id]]
             /\ respq' = [respq EXCEPT ![p] = Tail(@)]
          \/ /\ respq[p] = <<>>
             /\ SenderDropped(p)
             /\ clres' = [clres EXCEPT ![cl] = [NoResult EXCEPT !.kind = "RecvError"]]
             /\ UNCHANGED respq
    /\ clpc' = [clpc EXCEPT ![cl] = "idle"]
    /\ UNCHANGED <<mwWriter, router, plugins, caps, configured, poisoned, middlewares, regVars, wpc,
                   inq, term, cur, clroute, clinv, dVars, aVars, nextId, termSent,
                   histVars>>

\* ------------------------------------------------------------ Dispatcher::dispatch
\* a dispatcher that returns the payload whatever the response's error
dispatch_result_payload(r) == [kind |-> "Ok", msg |-> r.msg, err |-> NoError]

\* dispatch.rs 66-73: the match on the received response
dispatch_result(r) ==
    IF r.error # NoError
    THEN [kind |-> "InvocationError", msg |-> <<>>, err |-> r.error]
    ELSE [kind |-> "Ok", msg |-> r.msg, err |-> NoError]

\* dispatch.rs 56-64: Invocation::new, then invoc_s.send(inv) mapped to ChannelSendError
dispatch_send(p, msg) ==
    /\ dpc[p] = "idle"
    /\ p \in configured
    /\ nextId <= MaxInv
    /\ nextId' = nextId + 1
    /\ LET inv == NewInvocation(nextId, pkey[p][2], ActorTarget, msg)
       IN /\ dinv' = [dinv EXCEPT ![p] = inv]
          /\ dgot' = [dgot EXCEPT ![p] = NoResp]
          /\ IF ReceiverDropped(p)
             THEN /\ dres' = [dres EXCEPT ![p] =
                                [NoResult EXCEPT !.kind = "ChannelSendError"]]
                  /\ UNCHANGED <<dpc, inq, arrived>>
             ELSE /\ inq' = [inq EXCEPT ![p] = Append(@, inv)]
                  /\ arrived' = [arrived EXCEPT ![p] = Append(@, inv)]
                  /\ dpc' = [dpc EXCEPT ![p] = "sent"]
                  /\ dres' = [dres EXCEPT ![p] = NoResult]
    /\ UNCHANGED <<mwWriter, router, plugins, caps, configured, poisoned, middlewares, regVars, wpc,
                   respq, term, cur, clVars, aVars, termSent, log, alog, cnt>>

\* dispatch.rs 65-74: resp_r.recv() and the outcome
dispatch_recv(p) ==
    /\ dpc[p] = "sent"
    /\ \/ /\ respq[p] # <<>>
          /\ dgot' = [dgot EXCEPT ![p] = Head(respq[p])]
          /\ dres' = [dres EXCEPT ![p] = dispatch_result(Head(respq[p]))]
          /\ respq' = [respq EXCEPT ![p] = Tail(@)]
       \/ /\ respq[p] = <<>>
          /\ SenderDropped(p)
          /\ dres' = [dres EXCEPT ![p] = [NoResult EXCEPT !.kind = "ChannelReceiveError"]]
          /\ UNCHANGED <<dgot, respq>>
    /\ dpc' = [dpc EXCEPT ![p] = "idle"]
    /\ UNCHANGED <<mwWriter, router, plugins, caps, configured, poisoned, middlewares, regVars, wpc,
                   inq, term, cur, clVars, dinv, aVars, nextId, termSent, histVars>>

\* ------------------------------------------------------------ dispatch inside handle_call
\* the invocations dispatched from inside handle_call so far
SubCount ==
    Cardinality({inv \in UNION {{arrived[p][i] : i \in DOMAIN arrived[p]} : p \in Provs} :
                    inv.id > MaxInv})

\* mod.rs 49 -> handle_call -> dispatch.rs 56-64: the provider calls its
\* dispatcher on the worker thread, before handle_call returns; inv_r is
\* alive (this thread owns it), so the send succeeds
worker_call_dispatch_send(p) ==
    /\ wpc[p] = "call"
    /\ p \in configured
    /\ cur[p].sub = NoInv
    /\ SubCount < MaxSub
    /\ LET inv == NewInvocation(MaxInv + 1 + SubCount, pkey[p][2], ActorTarget,
                                cur[p].pinv.msg)
       IN /\ inq' = [inq EXCEPT ![p] = Append(@, inv)]
          /\ arrived' = [arrived EXCEPT ![p] = Append(@, inv)]
          /\ cur' = [cur EXCEPT ![p].sub = inv]
    /\ wpc' = [wpc EXCEPT ![p] = "dispatching"]
    /\ UNCHANGED <<mwWriter, router, plugins, caps, configured, poisoned, middlewares, regVars,
                   respq, term, clVars, dVars, aVars, nextId, termSent, log, alog, cnt>>

\* dispatch.rs 65-74 on the worker thread: resp_r.recv() returns the next
\* response of the channel; resp_s is alive (this thread owns it), so an
\* empty channel is never reported closed
worker_call_dispatch_recv(p) ==
    /\ wpc[p] = "dispatching"
    /\ respq[p] # <<>>
    /\ cur' = [cur EXCEPT ![p].subres = dispatch_result(Head(respq[p]))]
    /\ respq' = [respq EXCEPT ![p] = Tail(@)]
    /\ wpc' = [wpc EXCEPT ![p] = "call"]
    /\ UNCHANGED <<mwWriter, router, plugins, caps, configured, poisoned, middlewares, regVars,
                   inq, term, clVars, dVars, aVars, nextId, termSent, histVars>>

\* ------------------------------------------------------------ invoke_actor
GuestCallError == "guest call failed"

\* mod.rs 68-75: the read guard mw, then the actor pre chain
actor_pre(msg) ==
    /\ apc = "idle"
    /\ MiddlewaresReadAdmits
    /\ nextId <= MaxInv
    /\ nextId' = nextId + 1
    /\ \E outs \in HookOuts :
         LET inv == NewInvocation(nextId, "host", ActorTarget, msg)
             res == run_actor_pre_invoke(inv, middlewares, outs)
         IN /\ acur' = [NoCur EXCEPT !.inv = inv,
                                     !.pinv = pre_result(inv, res),
                                     !.trace = res.ran,
                                     !.preok = res.ok,
                                     !.chain = middlewares,
                                     !.plain = Unchanging(outs)]
            /\ cnt' = Bump(cnt, "actor_pre", res.ran)
    /\ apc' = "guest"
    /\ UNCHANGED <<mwWriter, router, plugins, caps, configured, poisoned, middlewares, regVars, wpc,
                   inq, respq, term, cur, clVars, dVars, termSent, arrived, log, alog>>

\* mod.rs 77-83: guest.call(&inv.operation, &inv.msg) wrapped as a response
guest_result(inv, out) ==
    IF out = "fail" THEN ResponseError(inv, GuestCallError)
    ELSE ResponseSuccess(inv, inv.msg)

actor_guest_call ==
    /\ apc = "guest"
    /\ \E out \in {"echo", "fail"} :
         acur' = [acur EXCEPT !.r = guest_result(acur.pinv, out),
                              !.trace = Append(@, <<0, "guest_call">>),
                              !.plain = @ /\ out = "echo"]
    /\ apc' = "post"
    /\ UNCHANGED <<mwWriter, router, plugins, caps, configured, poisoned, middlewares, regVars, wpc,
                   inq, respq, term, cur, clVars, dVars, nextId, termSent, histVars>>

\* mod.rs 84-91: the second read guard, the actor post chain, the return
actor_post ==
    /\ apc = "post"
    /\ MiddlewaresReadAdmits
    /\ \E outs \in HookOuts :
         LET res == run_actor_post_invoke(acur.r, middlewares, outs)
         IN /\ alog' = Append(alog, [acur EXCEPT !.resp = post_result(acur.r, res),
                                                 !.trace = @ \o res.ran,
                                                 !.postok = res.ok,
                                                 !.plain = @ /\ Unchanging(outs)])
            /\ cnt' = Bump(cnt, "actor_post", res.ran)
    /\ acur' = NoCur
    /\ apc' = "idle"
    /\ UNCHANGED <<mwWriter, router, plugins, caps, configured, poisoned, middlewares, regVars, wpc,
                   inq, respq, term, cur, clVars, dVars, nextId, termSent, arrived, log>>

\* ------------------------------------------------------------ specification
\* the state in which NativeHost::new() returns: the extras provider is
\* registered and its worker is in the select loop
Init ==
    /\ router = [k \in Keys |-> IF k = ExtrasKey THEN Extras ELSE None]
    /\ plugins = [k \in Keys |-> IF k = ExtrasKey THEN Extras ELSE None]
    /\ caps = [k \in Keys |-> IF k = ExtrasKey THEN Extras ELSE None]
    /\ configured = {Extras}
    /\ poisoned = FALSE
    /\ middlewares = <<>>
    /\ mwWriter = "none"
    /\ cpc = [c \in Provs |-> IF c = Extras THEN "Ok" ELSE "idle"]
    /\ pkey = [p \in Provs |-> ExtrasKey]
    /\ wpc = [p \in Provs |-> IF p = Extras THEN "loop" ELSE "none"]
    /\ inq = [p \in Provs |-> <<>>]
    /\ respq = [p \in Provs |-> <<>>]
    /\ term = [p \in Provs |-> 0]
    /\ cur = [p \in Provs |-> NoCur]
    /\ clpc = [cl \in Clients |-> "idle"]
    /\ clroute = [cl \in Clients |-> Extras]
    /\ clinv = [cl \in Clients |-> NoInv]
    /\ clres = [cl \in Clients |-> NoResult]
    /\ dpc = [p \in Provs |-> "idle"]
    /\ dinv = [p \in Provs |-> NoInv]
    /\ dres = [p \in Provs |-> NoResult]
    /\ dgot = [p \in Provs |-> NoResp]
    /\ apc = "idle"
    /\ acur = NoCur
    /\ nextId = 1
    /\ termSent = 0
    /\ arrived = [p \in Provs |-> <<>>]
    /\ log = [p \in Provs |-> <<>>]
    /\ alog = <<>>
    /\ cnt = [m \in MwIds |-> [ph \in Phases |-> 0]]

Register ==
    \/ \E c \in Calls, k \in Keys : add_native_capability(c, k)
    \/ \E c \in Calls : caps_insert(c)
    \/ \E c \in Calls : spawn_capability_provider_and_listen(c)
    \/ \E c \in Calls : wg_wait(c)
    \/ \E p \in Provs : worker_register_dispatcher(p)
    \/ \E p \in Provs : worker_add_route(p)
    \/ \E p \in Provs : worker_ready(p)

Terminate ==
    \/ \E k \in Keys : terminate_route(k)
    \/ \E p \in Provs : worker_recv_term(p)
    \/ \E p \in Provs : worker_remove_cap(p)
    \/ \E p \in Provs : worker_remove_route(p)
    \/ \E p \in Provs : worker_remove_plugin(p)

Serve ==
    \/ \E p \in Provs : worker_recv_inv(p)
    \/ \E p \in Provs : worker_pre(p)
    \/ \E p \in Provs : worker_plugins_read(p)
    \/ \E p \in Provs : worker_call(p)
    \/ \E p \in Provs : worker_post(p)
    \/ \E p \in Provs : worker_respond(p)

Invoke(payloads) ==
    \/ \E cl \in Clients, k \in Keys, actor \in BOOLEAN, msg \in payloads :
          invoke_lookup(cl, k, actor, msg)
    \/ \E cl \in Clients : invoke_send(cl)
    \/ \E cl \in Clients : invoke_recv(cl)

Dispatch ==
    \/ \E p \in Provs, msg \in Payloads : dispatch_send(p, msg)
    \/ \E p \in Provs : dispatch_recv(p)

InvokeActor ==
    \/ \E msg \in Payloads : actor_pre(msg)
    \/ actor_guest_call
    \/ actor_post

\* The host's life cycle: registrations, terminations, host-side invokes and
\* the workers that serve them (the chain stays as new() left it: empty, and
\* one payload stands for all: no step here reads it).
Next ==
    \/ Register
    \/ Terminate
    \/ Serve
    \/ Invoke({<<7>>})

Spec == Init /\ [][Next]_vars

\* The middleware chain around capability and actor invocations, served by
\* the worker of the provider that new() registered.
NextMw ==
    \/ Serve
    \/ Invoke(Payloads)
    \/ InvokeActor
    \/ add_middleware

SpecMw == Init /\ [][NextMw]_vars

\* The provider's outbound dispatcher beside host-side invokes, up to and
\* after the termination of its worker.
NextDispatch ==
    \/ Serve
    \/ Invoke(Payloads)
    \/ Dispatch
    \/ Terminate

SpecDispatch == Init /\ [][NextDispatch]_vars

\* Dispatches from a provider thread and from inside handle_call beside
\* host-side invokes, every running thread taking its steps: a worker thread
\* that can step does (a provider may or may not dispatch from handle_call),
\* a dispatch whose response is there takes it, an invoke in progress goes on.
CallDispatch ==
    \/ \E p \in Provs : worker_call_dispatch_send(p)
    \/ \E p \in Provs : worker_call_dispatch_recv(p)

NextLive ==
    \/ Serve
    \/ Invoke({<<7>>})
    \/ Dispatch
    \/ CallDispatch

WorkerStep(p) ==
    \/ worker_recv_inv(p) \/ worker_pre(p) \/ worker_plugins_read(p) \/ worker_call(p)
    \/ worker_post(p) \/ worker_respond(p) \/ worker_call_dispatch_recv(p)

SpecLive ==
    /\ Init
    /\ [][NextLive]_vars
    /\ \A p \in Provs : WF_vars(WorkerStep(p))
    /\ \A p \in Provs : WF_vars(dispatch_recv(p))
    /\ \A cl \in Clients : WF_vars(invoke_send(cl) \/ invoke_recv(cl))

\* Capability and actor invocations beside add_middleware calls that may have
\* to wait for the write lock, every running thread taking its steps: a
\* worker or an invoke_actor that can step does, a writer that can take the
\* lock takes it, an invoke in progress goes on.
AddMiddleware ==
    \/ add_middleware
    \/ add_middleware_wait
    \/ add_middleware_acquire

ActorStep == actor_guest_call \/ actor_post

NextMwLive ==
    \/ Serve
    \/ Invoke({<<7>>})
    \/ InvokeActor
    \/ AddMiddleware

SpecMwLive ==
    /\ Init
    /\ [][NextMwLive]_vars
    /\ \A p \in Provs : WF_vars(WorkerStep(p))
    /\ WF_vars(ActorStep)
    /\ WF_vars(add_middleware_acquire)
    /\ \A cl \in Clients : WF_vars(invoke_send(cl) \/ invoke_recv(cl))

\* Host-side invokes that place their invocation on the inbound channel
\* before any terminate signal is sent, then terminations: what is on a
\* worker's inbound channel was put there before its terminate signal.
NextDrain ==
    \/ Serve
    \/ \E cl \in Clients, k \in Keys, actor \in BOOLEAN, msg \in Payloads :
          invoke_lookup(cl, k, actor, msg)
    \/ \E cl \in Clients : termSent = 0 /\ invoke_send(cl)
    \/ \E cl \in Clients : invoke_recv(cl)
    \/ Terminate

SpecDrain == Init /\ [][NextDrain]_vars

\* ------------------------------------------------------------ NativeHost::new
\* an ensure_extras that never finds the route
extras_routed_never == FALSE

\* native_host.rs 127-133: get_route("default", "wascc:extras").is_some()
extras_routed == get_route(ExtrasKey) # None

\* native_host.rs 126-135: ensure_extras returns Ok at once when the route is
\* there, and goes on to add_native_capability when it is not
ensure_extras(c) ==
    /\ cpc[c] = "idle"
    /\ cpc' = [cpc EXCEPT ![c] = IF extras_routed THEN "Ok" ELSE "ensuring"]
    /\ UNCHANGED <<mwWriter, router, plugins, caps, configured, poisoned, middlewares, pkey, wpc,
                   inq, respq, term, cur, clVars, dVars, aVars, nextId, termSent, histVars>>

\* native_host.rs 136-139, 36-47: add_native_capability(extras provider), its
\* route_exists check
ensure_extras_add(c) ==
    /\ cpc[c] = "ensuring"
    /\ pkey' = [pkey EXCEPT ![c] = ExtrasKey]
    /\ cpc' = [cpc EXCEPT ![c] = IF route_exists(ExtrasKey) THEN "Err" ELSE "checked"]
    /\ UNCHANGED <<mwWriter, router, plugins, caps, configured, poisoned, middlewares, wpc, inq,
                   respq, term, cur, clVars, dVars, aVars, nextId, termSent, histVars>>

\* native_host.rs 26-31: the fields as the struct literal of new() makes them
InitNew ==
    /\ router = [k \in Keys |-> None]
    /\ plugins = [k \in Keys |-> None]
    /\ caps = [k \in Keys |-> None]
    /\ configured = {}
    /\ poisoned = FALSE
    /\ middlewares = <<>>
    /\ mwWriter = "none"
    /\ cpc = [c \in Provs |-> "idle"]
    /\ pkey = [p \in Provs |-> ExtrasKey]
    /\ wpc = [p \in Provs |-> "none"]
    /\ inq = [p \in Provs |-> <<>>]
    /\ respq = [p \in Provs |-> <<>>]
    /\ term = [p \in Provs |-> 0]
    /\ cur = [p \in Provs |-> NoCur]
    /\ clpc = [cl \in Clients |-> "idle"]
    /\ clroute = [cl \in Clients |-> Extras]
    /\ clinv = [cl \in Clients |-> NoInv]
    /\ clres = [cl \in Clients |-> NoResult]
    /\ dpc = [p \in Provs |-> "idle"]
    /\ dinv = [p \in Provs |-> NoInv]
    /\ dres = [p \in Provs |-> NoResult]
    /\ dgot = [p \in Provs |-> NoResp]
    /\ apc = "idle"
    /\ acur = NoCur
    /\ nextId = 1
    /\ termSent = 0
    /\ arrived = [p \in Provs |-> <<>>]
    /\ log = [p \in Provs |-> <<>>]
    /\ alog = <<>>
    /\ cnt = [m \in MwIds |-> [ph \in Phases |-> 0]]

\* native_host.rs 32-33: ensure_extras().unwrap() has returned, new() hands
\* out the host
NewReturned == cpc[Extras] = "Ok"

\* new() from the struct literal on (call 0 is the ensure_extras of new(), which
\* registers provider 0), then registrations, terminations and further calls
\* of ensure_extras by the holders of the host.
NextNew ==
    \/ \E c \in Provs : (c = Extras \/ NewReturned) /\ ensure_extras(c)
    \/ \E c \in Provs : ensure_extras_add(c)
    \/ \E c \in Calls, k \in Keys : NewReturned /\ add_native_capability(c, k)
    \/ \E c \in Provs : caps_insert(c)
    \/ \E c \in Provs : spawn_capability_provider_and_listen(c)
    \/ \E c \in Provs : wg_wait(c)
    \/ \E p \in Provs : worker_register_dispatcher(p)
    \/ \E p \in Provs : worker_add_route(p)
    \/ \E p \in Provs : worker_ready(p)
    \/ NewReturned /\ Terminate

SpecNew == InitNew /\ [][NextNew]_vars

\* ------------------------------------------------------------ claims
\* a provider whose registration succeeded and whose worker consumed no
\* terminate signal
Live(p) ==
    /\ p = Extras \/ cpc[p] = "Ok"
    /\ wpc[p] \notin (TerminatingPcs \cup {"exited"})

CallInProgress(c) == cpc[c] \in {"checked", "inserted", "waiting"}

\* C1 -- Route uniqueness: for every key at most one registration is Ok at a
\* time, and a registration of the same key that returned an error has left
\* the first provider intact: while that provider holds the route, the caps
\* descriptor and the plugin record of the key are still its own.
C1_RouteUniqueness ==
    /\ \A a, b \in Provs : a # b /\ Live(a) /\ Live(b) => pkey[a] # pkey[b]
    /\ \A a \in Provs, b \in Calls :
         (/\ a # b
          /\ Live(a)
          /\ router[pkey[a]] = a
          /\ pkey[b] = pkey[a]
          /\ cpc[b] = "Err")
         => caps[pkey[a]] = a /\ plugins[pkey[a]] = a

\* C2 -- Registration readiness: when add_native_capability has returned Ok
\* (and no terminate signal was consumed since), the provider's route is in
\* the router and its worker is in its serving loop.
C2_RegistrationReadiness ==
    \A c \in Calls :
        cpc[c] = "Ok" /\ wpc[c] \notin (TerminatingPcs \cup {"exited"})
        => router[pkey[c]] = c /\ wpc[c] \in ({"loop"} \cup ServingPcs)

\* C3 -- Registration-path errors propagate: add_native_capability never
\* returns Ok for a provider that rejected configure(dispatcher).
C3_ConfigureErrorPropagates ==
    \A c \in Calls : cpc[c] = "Ok" => c \in configured

\* C9 -- Teardown: once no registration is in progress and every worker
\* thread has ended, no key has a route, a plugin record or a caps entry.
C9_Teardown ==
    (/\ \A c \in Calls : ~CallInProgress(c)
     /\ \A p \in Provs : wpc[p] \in ({"none"} \cup GonePcs))
    => \A k \in Keys : router[k] = None /\ plugins[k] = None /\ caps[k] = None

Range(q) == {q[i] : i \in DOMAIN q}
IsCap(e) == ~IsActorTarget(e.inv.target)
\* the worker holds an invocation it has received and not answered
InHand(p) == cur[p].inv.id # 0
\* no worker is between the pre chain and the send of the response
NoneServing ==
    \A p \in Provs : wpc[p] \notin {"plug", "call", "dispatching", "post", "respond"}

\* C4 -- FIFO per provider: the worker has received a prefix of what arrived,
\* holds at most one unanswered invocation, and its i-th response answers the
\* i-th invocation that arrived; the response channel holds the latest
\* responses in that order.
C4_FifoPerProvider ==
    \A p \in Provs :
        LET n == Len(log[p])
            m == Len(respq[p])
        IN /\ Len(arrived[p]) - Len(inq[p]) = n + (IF InHand(p) THEN 1 ELSE 0)
           /\ \A i \in 1..n : /\ log[p][i].inv = arrived[p][i]
                              /\ log[p][i].resp.invocation_id = arrived[p][i].id
           /\ InHand(p) => cur[p].inv = arrived[p][n + 1]
           /\ m <= n
           /\ \A j \in 1..m : respq[p][j] = log[p][n - m + j].resp

\* two invocations whose arrival order is not the order of their ids, both
\* answered
C4_Witness ==
    /\ Len(log[Extras]) = 2
    /\ log[Extras][1].inv.id = 2
    /\ log[Extras][2].inv.id = 1

Events(chain, k, phase) == [i \in 1..k |-> <<chain[i], phase>>]
CallEvent == <<0, "handle_call">>
GuestEvent == <<0, "guest_call">>
CapEntries == {e \in UNION {Range(log[p]) : p \in Provs} : IsCap(e)}

\* C5 as claimed -- every answered capability invocation ran every pre-hook of
\* its chain, the provider call and every post-hook, each once and in
\* registration order; after K invocations each capability hook counter of a
\* middleware of the chain is K.
C5_EveryHookOnce ==
    /\ \A e \in CapEntries :
         e.trace = Events(e.chain, Len(e.chain), "cap_pre") \o <<CallEvent>>
                   \o Events(e.chain, Len(e.chain), "cap_post")
    /\ NoneServing =>
         \A m \in MwIds :
            (\A e \in CapEntries : m \in Range(e.chain))
            => /\ cnt[m]["cap_pre"] = Cardinality(CapEntries)
               /\ cnt[m]["cap_post"] = Cardinality(CapEntries)

\* C5 as amended -- the pre-hooks run in registration order, then the provider
\* call, then the post-hooks in registration order; a phase ends at the first
\* hook that returns an error; when no hook fails every hook ran once, and
\* after K such invocations each capability hook counter is K.
C5_MiddlewareOrdering ==
    /\ \A e \in CapEntries :
         \E kpre, kpost \in 0..Len(e.chain) :
            /\ e.trace = Events(e.chain, kpre, "cap_pre") \o <<CallEvent>>
                         \o Events(e.chain, kpost, "cap_post")
            /\ e.preok => kpre = Len(e.chain)
            /\ e.postok => kpost = Len(e.chain)
            /\ ~e.preok => kpre >= 1
            /\ ~e.postok => kpost >= 1
    /\ NoneServing =>
         \A m \in MwIds :
            (\A e \in CapEntries : m \in Range(e.chain) /\ e.preok /\ e.postok)
            => /\ cnt[m]["cap_pre"] = Cardinality(CapEntries)
               /\ cnt[m]["cap_post"] = Cardinality(CapEntries)

\* two invocations through the chain [1, 2] with no failing hook
C5_Witness ==
    /\ Len(log[Extras]) = 2
    /\ \A i \in 1..2 : /\ IsCap(log[Extras][i])
                       /\ log[Extras][i].chain = <<1, 2>>
                       /\ log[Extras][i].preok /\ log[Extras][i].postok
    /\ NoneServing
    /\ cnt[1]["cap_pre"] = 2 /\ cnt[2]["cap_post"] = 2

\* C6 -- Pre-hook failure is non-fatal: after a failed pre chain the provider
\* (the guest) is still called, with the invocation as submitted; the post
\* chain runs; the response carries no middleware error.
C6_PreFailureNonFatal ==
    /\ \A e \in CapEntries :
         ~e.preok => /\ e.pinv = e.inv
                     /\ CallEvent \in Range(e.trace)
                     /\ e.r.error = NoError => e.r.msg = e.inv.msg
                     /\ <<e.chain[1], "cap_post">> \in Range(e.trace)
                     /\ e.resp.error # MiddlewareError
    /\ \A e \in Range(alog) :
         ~e.preok => /\ e.pinv = e.inv
                     /\ GuestEvent \in Range(e.trace)
                     /\ e.r.error = NoError => e.r.msg = e.inv.msg
                     /\ <<e.chain[1], "actor_post">> \in Range(e.trace)
                     /\ e.resp.error # MiddlewareError
    /\ \A p \in Provs : wpc[p] \in {"plug", "call"} /\ ~cur[p].preok
                        => cur[p].pinv = cur[p].inv
    /\ apc = "guest" /\ ~acur.preok => acur.pinv = acur.inv

\* the second pre-hook of the chain [1, 2] failed and the provider answered
\* with the payload as submitted
C6_Witness ==
    \E e \in CapEntries :
        /\ ~e.preok
        /\ e.chain = <<1, 2>>
        /\ e.trace[2] = <<2, "cap_pre">>
        /\ e.inv.msg = <<7>>
        /\ e.r = ResponseSuccess(e.inv, <<7>>)

\* C7 -- Post-hook failure yields the untransformed response: after a failed
\* post chain the response returned is the one the provider call (the guest
\* call) produced.
C7_PostFailureUntransformed ==
    /\ \A e \in CapEntries : ~e.postok => e.resp = e.r
    /\ \A e \in Range(alog) : ~e.postok => e.resp = e.r
    /\ \A p \in Provs : wpc[p] = "respond" /\ ~cur[p].postok => cur[p].resp = cur[p].r

\* the second post-hook of the chain [1, 2] failed
C7_Witness ==
    \E e \in CapEntries :
        /\ ~e.postok
        /\ e.chain = <<1, 2>>
        /\ e.trace[Len(e.trace)] = <<2, "cap_post">>
        /\ e.resp = ResponseSuccess(e.inv, <<7>>)

\* C8 -- Bad dispatch: an Actor-target invocation is answered once, with the
\* documented error and its own id, without any hook or handle_call; the
\* worker holding one is about to answer it.
C8_BadDispatch ==
    \A p \in Provs :
        /\ \A i \in DOMAIN log[p] :
             ~IsCap(log[p][i]) =>
                /\ log[p][i].resp = ResponseError(log[p][i].inv, ActorTargetError)
                /\ log[p][i].trace = <<>>
        /\ \A i, j \in DOMAIN log[p] : log[p][i].inv.id = log[p][j].inv.id => i = j
        /\ InHand(p) /\ IsActorTarget(cur[p].inv.target) =>
                /\ wpc[p] = "respond"
                /\ cur[p].resp = ResponseError(cur[p].inv, ActorTargetError)
                /\ cur[p].trace = <<>>

\* an Actor-target invocation answered while a middleware was in the chain,
\* and a capability invocation served after it
C8_Witness ==
    /\ Len(log[Extras]) = 2
    /\ ~IsCap(log[Extras][1])
    /\ log[Extras][1].chain # <<>>
    /\ IsCap(log[Extras][2])
    /\ respq[Extras] = <<>>

\* C10 -- Dispatcher outcome mapping.  The invocation built has the
\* provider's capability id as origin and an Actor target; a send error means
\* the worker's receiver was dropped, nothing was enqueued and no response
\* was taken; otherwise the invocation was enqueued once and the result is
\* Ok(msg) exactly for a response without error, InvocationError(error) for
\* one with, ChannelReceiveError when the response channel was closed.
C10_DispatchOutcome ==
    \A p \in Provs :
        LET d == dres[p]
            n == Cardinality({i \in DOMAIN arrived[p] : arrived[p][i] = dinv[p]})
            sent == UNION {{log[q][i].resp : i \in DOMAIN log[q]} : q \in Provs}
        IN /\ dinv[p].id # 0 => /\ dinv[p].origin = pkey[p][2]
                                /\ IsActorTarget(dinv[p].target)
           /\ d.kind = "ChannelSendError" =>
                 n = 0 /\ dgot[p] = NoResp /\ ReceiverDropped(p) /\ dpc[p] = "idle"
           /\ dpc[p] = "sent" => n = 1 /\ dgot[p] = NoResp /\ d.kind = "none"
           /\ d.kind = "Ok" =>
                 n = 1 /\ dgot[p] \in sent /\ dgot[p].error = NoError /\ d.msg = dgot[p].msg
           /\ d.kind = "InvocationError" =>
                 n = 1 /\ dgot[p] \in sent /\ dgot[p].error # NoError
                 /\ d.err = dgot[p].error
           /\ d.kind = "ChannelReceiveError" =>
                 n = 1 /\ dgot[p] = NoResp /\ SenderDropped(p)
           /\ dgot[p] # NoResp => (d.kind = "Ok" <=> dgot[p].error = NoError)
           /\ dgot[p] # NoResp => d.kind \in {"Ok", "InvocationError"}

\* a dispatch that got its own invocation's answer: the bad-dispatch error
C10_Witness ==
    /\ dres[Extras].kind = "InvocationError"
    /\ dres[Extras].err = ActorTargetError
    /\ dgot[Extras].invocation_id = dinv[Extras].id

\* the other three outcomes of a dispatch
C10_WitnessOk == dres[Extras].kind = "Ok"
C10_WitnessSendError == dres[Extras].kind = "ChannelSendError"
C10_WitnessReceiveError == dres[Extras].kind = "ChannelReceiveError"

\* C11 -- Extras present at start: at the step by which new() returns, the
\* router has the route of ("default", "wascc:extras"), the plugin set has the
\* extras provider and its worker is in the loop: the state is Init; and a
\* further call of ensure_extras, as long as no terminate signal was sent,
\* returns Ok and registers nothing.
C11_ExtrasAtStart ==
    [][/\ (~NewReturned /\ NewReturned') =>
            /\ router'[ExtrasKey] = Extras
            /\ plugins'[ExtrasKey] = Extras
            /\ caps'[ExtrasKey] = Extras
            /\ wpc'[Extras] = "loop"
            /\ Init'
       /\ \A c \in Calls :
            (termSent = 0 /\ ensure_extras(c)) =>
                /\ cpc'[c] = "Ok"
                /\ UNCHANGED <<router, plugins, caps, configured, wpc, pkey>>]_vars

\* ensure_extras was called again after new() and returned Ok without a
\* provider of its own
C11_Witness ==
    /\ NewReturned
    /\ termSent = 0
    /\ \E c \in Calls : cpc[c] = "Ok" /\ wpc[c] = "none" /\ plugins[ExtrasKey] = Extras

\* C12 -- Round-trip payload transparency: when the provider's handle_call
\* returned its input and every hook of the chain returned its argument
\* unchanged (or the chain is empty), the response the worker sends has the
\* invocation's payload and id and no error.
C12_PayloadTransparency ==
    /\ \A e \in CapEntries :
         e.plain => /\ e.resp.msg = e.inv.msg
                    /\ e.resp.error = NoError
                    /\ e.resp.invocation_id = e.inv.id
    /\ \A p \in Provs :
         wpc[p] = "respond" /\ IsCap(cur[p]) /\ cur[p].plain
         => cur[p].resp = ResponseSuccess(cur[p].inv, cur[p].inv.msg)

\* the empty payload through an empty chain and a payload through the chain
\* [1, 2], both echoed
C12_Witness ==
    /\ Len(log[Extras]) = 2
    /\ \A i \in 1..2 : IsCap(log[Extras][i]) /\ log[Extras][i].plain
    /\ log[Extras][1].inv.msg = <<>> /\ log[Extras][1].chain = <<>>
    /\ log[Extras][2].inv.msg = <<7>> /\ log[Extras][2].chain = <<1, 2>>
    /\ Len(log[Extras][2].trace) = 5

\* C13 -- Response correlation on the shared response channel: with one
\* dispatch at a time per provider, a host-side invoke and a dispatch each
\* receive the response that carries the id of the invocation they sent.
C13_ResponseCorrelation ==
    /\ \A cl \in Clients :
         clres[cl].kind = "Response" => clres[cl].id = clinv[cl].id
    /\ \A p \in Provs :
         dgot[p] # NoResp => dgot[p].invocation_id = dinv[p].id

\* C14 -- Dispatch liveness: a dispatch in progress, on a provider thread or
\* on the worker thread inside handle_call, eventually returns.
C14_DispatchLiveness ==
    /\ \A p \in Provs : (dpc[p] = "sent") ~> (dpc[p] = "idle")
    /\ \A p \in Provs : (wpc[p] = "dispatching") ~> (wpc[p] # "dispatching")

\* C14, the worker's part as a state property: the worker is never blocked
\* in a dispatch of its own with no response on the channel, which only the
\* worker itself could send.
C14_WorkerNeverSelfBlocked ==
    \A p \in Provs : ~(wpc[p] = "dispatching" /\ respq[p] = <<>>)

\* C15 -- Lock discipline: a worker thread that is executing the provider's
\* handle_call, or is waiting in a channel operation, holds none of the
\* router, plugins and middlewares locks.
C15_LockDiscipline ==
    \A p \in Provs : InHandleCall(p) \/ InChannelWait(p) => WorkerHolds(p) = {}

\* C16 -- Lock order: a worker thread that holds some of the three locks and
\* acquires another acquires one that comes later in the order middlewares,
\* plugins, router.
C16_LockOrder ==
    \A p \in Provs :
        WorkerAcquires(p) # "none" =>
            \A h \in WorkerHolds(p) : LockRank(h) < LockRank(WorkerAcquires(p))

\* C17 -- Drain up to terminate: a worker that has consumed its terminate
\* signal has served and answered every invocation that was placed on its
\* inbound channel before the signal was sent (under SpecDrain: every
\* invocation that was placed on it).
C17_DrainUpToTerminate ==
    \A p \in Provs :
        wpc[p] \in (TerminatingPcs \cup {"exited"})
        => inq[p] = <<>> /\ Len(log[p]) = Len(arrived[p])

\* C18 -- A worker thread ends only by consuming a terminate signal: no
\* worker thread unwinds, and a failed provider call is answered with a
\* response that has the error set.
C18_WorkerEndsOnlyByTerminate ==
    /\ \A p \in Provs : wpc[p] # "panicked"
    /\ \A e \in CapEntries : e.r.error # NoError => e.resp.error = e.r.error

\* C19 -- Live-worker invariant (I1), its last part: a route is never left
\* in the table after its worker has stopped.
C19_NoRouteAfterWorkerStopped ==
    \A k \in Keys : route_exists(k) => ~WorkerGone(get_route(k))

\* C19, its first part: the worker of every key in the table is running and
\* has consumed no terminate signal.
C19_LiveWorker ==
    \A k \in Keys :
        route_exists(k) => wpc[get_route(k)] \in ({"routed", "loop"} \cup ServingPcs)

\* the worker p takes a step from position pc
Leaves(p, pc) == wpc[p] = pc /\ wpc'[p] # pc

\* C20 -- Destroy order: a worker that has consumed a terminate signal
\* removes the key from caps, then its route from the router, then its plugin
\* from the plugin set, one after the other and nothing else, and exits; the
\* plugin is removed (the shutdown hook runs) only when the route is gone.
C20_DestroyOrder ==
    [][\A p \in Provs :
         /\ Leaves(p, "loop") /\ term'[p] < term[p] =>
                wpc'[p] = "t_caps" /\ UNCHANGED <<caps, router, plugins, inq, respq>>
         /\ Leaves(p, "t_caps") =>
                /\ wpc'[p] = "t_route"
                /\ caps' = [caps EXCEPT ![pkey[p]] = None]
                /\ UNCHANGED <<router, plugins, inq, respq>>
         /\ Leaves(p, "t_route") =>
                /\ wpc'[p] = "t_plug"
                /\ router' = [router EXCEPT ![pkey[p]] = None]
                /\ UNCHANGED <<caps, plugins, inq, respq>>
         /\ Leaves(p, "t_plug") =>
                /\ wpc'[p] = "exited"
                /\ router[pkey[p]] = None
                /\ plugins[pkey[p]] = p
                /\ plugins' = [plugins EXCEPT ![pkey[p]] = None]
                /\ UNCHANGED <<caps, router, inq, respq>>
         /\ wpc[p] = "exited" => wpc'[p] = "exited"]_vars

\* C21 -- Every key in the router is in the plugin set, with the record of
\* the provider that owns the route; a capability invocation a worker has
\* served, or is serving, did not fail for lack of a plugin record.
C21_RoutedHasPlugin ==
    /\ \A k \in Keys : route_exists(k) => plugins[k] = get_route(k)
    /\ \A e \in CapEntries : e.r.error # NoPluginError
    /\ \A p \in Provs : wpc[p] \in {"post", "respond"} => cur[p].r.error # NoPluginError

\* a provider registered by a call has its route and its plugin record and
\* has served a capability invocation, while the extras provider is torn
\* down: its route is gone, its plugin record not yet
C21_Witness ==
    \E c \in Calls :
        /\ router[EchoKey] = c /\ plugins[EchoKey] = c
        /\ \E i \in DOMAIN log[c] : IsCap(log[c][i])
        /\ wpc[Extras] = "t_plug"
        /\ router[ExtrasKey] = None /\ plugins[ExtrasKey] = Extras

\* no add_native_capability call is in progress and no worker is between the
\* start of its registration and the entry of its loop, or in its terminate arm
Quiescent ==
    /\ \A c \in Calls : ~CallInProgress(c)
    /\ \A p \in Provs : wpc[p] \notin (StartingPcs \cup TerminatingPcs)

\* C22 -- In every quiescent state caps, the plugin set and the router hold
\* the same keys, and an add_native_capability that returned an error has
\* left no caps entry of its own behind.
C22_KeySetsAgree ==
    Quiescent =>
        /\ \A k \in Keys : /\ (caps[k] # None) = (plugins[k] # None)
                            /\ (plugins[k] # None) = route_exists(k)
        /\ \A c \in Calls : cpc[c] = "Err" => caps[pkey[c]] # c

\* every invocation that reaches its post chain runs it on the chain its pre
\* chain ran on: while a thread is inside invoke_capability or invoke_actor
\* the chain is the one its pre-hooks saw
C23_SameChain ==
    /\ \A p \in Provs :
         wpc[p] \in {"plug", "call", "dispatching", "post"} => cur[p].chain = middlewares
    /\ apc \in {"guest", "post"} => acur.chain = middlewares

\* C23 -- A capability or actor invocation always completes when
\* add_middleware runs concurrently: a worker that took an invocation
\* answers it, an invoke_actor that started returns, also with a writer
\* queued between the two read acquisitions, and the post-hooks run on the
\* chain the pre-hooks of the invocation ran on.
C23_InvocationCompletes ==
    /\ \A p \in Provs : (wpc[p] \in ServingPcs) ~> (wpc[p] = "loop")
    /\ (apc # "idle") ~> (apc = "idle")
    /\ []C23_SameChain

\* the invoking thread waits at its second middlewares.read() behind a writer
\* that waits for the guard the same thread took for the pre chain
C23_SelfBlocked ==
    /\ mwWriter = "preferred"
    /\ \/ \E p \in Provs : wpc[p] = "post"
       \/ apc = "post"

====
